---- MODULE Spec2Model ----
(***************************************************************************)
(* University Application Tracker (src/app.py).                            *)
(*                                                                         *)
(* The program is a Streamlit script: every user interaction re-runs the   *)
(* whole script from top to bottom against the session state and the       *)
(* progress file on disk.  One action of this model is one script run.     *)
(* Python dicts are functions whose DOMAIN is the dict's key set; the      *)
(* progress file is the token text json.dump writes and json.load parses.  *)
(***************************************************************************)
EXTENDS Integers, Sequences, FiniteSets, TLC

VARIABLES
    session_state,        \* st.session_state: {} or {'requirements_checked': dict}
    file,                 \* progress/application_progress.json and its folder
    df,                   \* the university table of the last run
    selected_categories,  \* value of the category multiselect
    selected_programs,    \* value of the program multiselect
    filtered_df,          \* rows of df shown in the last run
    widgets,              \* the checkboxes and button the last run rendered, in order
    event,                \* the user event that triggered the last run
    message,              \* st.success / st.error of the last run
    progress,             \* <<general_reqs, total_general_reqs>> of the last run, <<>> if not computed
    exception,            \* uncaught exception that ended the last run, "none" otherwise
    after_init,           \* requirements_checked as the init block of this session left it
    load_signal,          \* st.success / st.error of the init block of this session
    touched,              \* a checkbox was clicked in this session
    clicks                \* clicks on checkboxes and filter options so far

vars == <<session_state, file, df, selected_categories, selected_programs, filtered_df,
          widgets, event, message, progress, exception, after_init, load_signal,
          touched, clicks>>

----------------------------------------------------------------------------
(* Bounds of the exploration *)

\* what the user does after first opening the page: clicks on checkboxes and on
\* filter options, and reloads of the page (clicks on the save button are not counted)
MaxClicks == 1
\* the user opens only the first MaxExpanders expanders of the current view
MaxExpanders == 1
\* rows of the tables the filter is applied to, besides the program's own table
MaxRows == 3

----------------------------------------------------------------------------
(* Python dicts *)

EmptyDict == [k \in {} |-> FALSE]

Min(a, b) == IF a < b THEN a ELSE b

\* the keys of a dict in some fixed order (dict equality ignores order)
RECURSIVE KeyOrder(_)
KeyOrder(S) ==
    IF S = {} THEN <<>>
    ELSE LET k == CHOOSE x \in S : TRUE IN <<k>> \o KeyOrder(S \ {k})

----------------------------------------------------------------------------
(* The fixed schema *)

GenericKeys == <<"GRE", "TOEFL", "Transcripts", "SOP", "Resume", "LORs">>

UnivFields == <<"Application_Started", "Documents_Uploaded",
                "Application_Submitted", "Fee_Paid">>

Range(s) == {s[i] : i \in 1..Len(s)}

ZeroProgress == [f \in Range(UnivFields) |-> FALSE]

DefaultRequirements ==
    [k \in Range(GenericKeys) \cup {"University_Specific"} |->
        IF k = "University_Specific" THEN EmptyDict ELSE FALSE]

----------------------------------------------------------------------------
(* The university table: the columns the logic reads *)

Row(u, c, p) == [University |-> u, Category |-> c, Program |-> p]

load_university_data ==
    << Row("UT Austin", "Self Apply", "MS CS"),
       Row("University of Florida", "Self Apply", "MS CS"),
       Row("UC Davis", "Self Apply", "MS CS"),
       Row("Texas A&M", "Self Apply", "MS DS"),
       Row("University of South Florida", "Self Apply", "MS CS"),
       Row("University of Central Florida", "Self Apply", "MS CS"),
       Row("San Jose State University", "IDP Consultancy", "MS CS"),
       Row("University of Illinois Chicago", "IDP Consultancy", "MS CS"),
       Row("Florida Institute of Technology", "IDP Consultancy", "MS CS"),
       Row("Florida International University", "IDP Consultancy", "MS CS") >>

\* df['Category'].unique(), df['Program'].unique(): the options of the multiselects
CategoryOptions(table) == {table[i].Category : i \in 1..Len(table)}
ProgramOptions(table) == {table[i].Program : i \in 1..Len(table)}

TableNames == {load_university_data[i].University : i \in 1..Len(load_university_data)}

\* a mask that joins the two conditions with | instead of &
FilterMask_Or(row, cats, progs) == row.Category \in cats \/ row.Program \in progs

\* df[df['Category'].isin(cats) & df['Program'].isin(progs)]
FilterMask(row, cats, progs) == row.Category \in cats /\ row.Program \in progs

FilterRows(table, cats, progs) ==
    SelectSeq(table, LAMBDA row : FilterMask(row, cats, progs))

----------------------------------------------------------------------------
(* JSON text: a sequence of tokens *)

Punct(c) == <<"punct", c>>
StrTok(s) == <<"string", s>>
BoolTok(b) == <<"literal", IF b THEN "true" ELSE "false">>

RECURSIVE JoinMembers(_)
JoinMembers(ms) ==
    IF ms = <<>> THEN <<>>
    ELSE IF Len(ms) = 1 THEN ms[1]
    ELSE ms[1] \o <<Punct(",")>> \o JoinMembers(Tail(ms))

\* an object whose members are the keys of d, each value encoded by Enc(key, value)
DumpObject(d, Enc(_, _)) ==
    LET ks == KeyOrder(DOMAIN d)
        ms == [i \in 1..Len(ks) |->
                  <<StrTok(ks[i]), Punct(":")>> \o Enc(ks[i], d[ks[i]])]
    IN <<Punct("{")>> \o JoinMembers(ms) \o <<Punct("}")>>

DumpBool(k, v) == <<BoolTok(v)>>

DumpUniversityProgress(k, v) == DumpObject(v, DumpBool)

DumpRequirement(k, v) ==
    IF k = "University_Specific" THEN DumpObject(v, DumpUniversityProgress)
    ELSE <<BoolTok(v)>>

DumpProgressField(k, v) ==
    IF k = "requirements_checked" THEN DumpObject(v, DumpRequirement)
    ELSE <<StrTok(v)>>

\* json.dump(progress_data, f)
json_dump(progress_data) == DumpObject(progress_data, DumpProgressField)

ParseFail == [ok |-> FALSE, type |-> "none", val |-> FALSE, next |-> 0]

RECURSIVE ParseValue(_, _), ParseMembers(_, _, _, _), ParseRest(_, _, _, _)
ParseValue(toks, i) ==
    IF i > Len(toks) THEN ParseFail
    ELSE IF toks[i][1] = "literal"
      THEN [ok |-> TRUE, type |-> "bool", val |-> (toks[i][2] = "true"), next |-> i + 1]
    ELSE IF toks[i][1] = "string"
      THEN [ok |-> TRUE, type |-> "str", val |-> toks[i][2], next |-> i + 1]
    ELSE IF toks[i] = Punct("{")
      THEN ParseMembers(toks, i + 1, EmptyDict, TRUE)
    ELSE ParseFail

\* the members of an object from position i on; first: no member read yet
ParseMembers(toks, i, acc, first) ==
    IF i > Len(toks) THEN ParseFail
    ELSE IF first /\ toks[i] = Punct("}")
      THEN [ok |-> TRUE, type |-> "dict", val |-> acc, next |-> i + 1]
    ELSE IF i + 1 > Len(toks) \/ toks[i][1] # "string" \/ toks[i + 1] # Punct(":")
      THEN ParseFail
    ELSE ParseRest(toks, toks[i][2], acc, ParseValue(toks, i + 2))

\* the object after the member key : v
ParseRest(toks, key, acc, v) ==
    IF ~v.ok \/ v.next > Len(toks) THEN ParseFail
    ELSE IF toks[v.next] = Punct("}")
      THEN [ok |-> TRUE, type |-> "dict", val |-> (key :> v.val) @@ acc, next |-> v.next + 1]
    ELSE IF toks[v.next] = Punct(",")
      THEN ParseMembers(toks, v.next + 1, (key :> v.val) @@ acc, FALSE)
    ELSE ParseFail

\* json.load(f): the whole text must be one value
WholeText(toks, r) == IF r.ok /\ r.next = Len(toks) + 1 THEN r ELSE ParseFail

json_load(toks) == WholeText(toks, ParseValue(toks, 1))

----------------------------------------------------------------------------
(* Widgets *)

NoClick == [kind |-> "none", name |-> "", field |-> ""]
RequirementBox(k) == [kind |-> "requirement", name |-> k, field |-> ""]
UniversityBox(u, f) == [kind |-> "university", name |-> u, field |-> f]
SaveButton == [kind |-> "save", name |-> "", field |-> ""]

\* a checkbox called without its value argument: unchecked unless clicked in this run
Checkbox_Unset(id, value, click) == click = id

\* st.checkbox(label, value): the value unless the user's click in this run is on this box
Checkbox(id, value, click) == IF click = id THEN ~value ELSE value

\* the events that are no click on a rendered widget
Event(kind, name) == [kind |-> kind, name |-> name, field |-> ""]

\* st.success(...) and st.error(f'...: {str(e)}')
NoMessage == [kind |-> "none", cause |-> ""]
Success(kind) == [kind |-> kind, cause |-> ""]
Error(kind, e) == [kind |-> kind, cause |-> e]

----------------------------------------------------------------------------
(* The progress file *)

NoFolder == [kind |-> "nodir", tokens |-> <<>>]
NoFile == [kind |-> "absent", tokens |-> <<>>]
Unreadable == [kind |-> "unreadable", tokens |-> <<>>]
Text(toks) == [kind |-> "text", tokens |-> toks]

\* the calls of save_progress that can raise for this file state
IoOutcomes(f) ==
    {"ok", "open", "write"} \cup (IF f.kind = "nodir" THEN {"makedirs"} ELSE {})

\* datetime.now().strftime("%Y-%m-%d %H:%M:%S"): the clock reading after n clicks
Clock == <<"2024-11-05 10:00:00", "2024-11-06 09:30:00",
           "2024-11-07 08:15:00", "2024-11-08 21:45:00">>
datetime_now(n) == Clock[((n + Len(Clock) - 1) % Len(Clock)) + 1]

\* a save whose except branch falls back to the defaults
save_progress_reset(rc, f, io, now) ==
    IF io \in {"makedirs", "open", "write"}
      THEN [rc |-> DefaultRequirements,
            file |-> IF io = "write" THEN Text(<<>>) ELSE f,
            msg |-> Error("save_error", "OSError")]
    ELSE [rc |-> rc,
          file |-> Text(json_dump([requirements_checked |-> rc, last_updated |-> now])),
          msg |-> Success("saved")]

\* a save that opens the file with mode 'a' and so writes after what is there
save_progress_append(rc, f, io, now) ==
    IF io \in {"makedirs", "open", "write"}
      THEN [rc |-> rc, file |-> f, msg |-> Error("save_error", "OSError")]
    ELSE [rc |-> rc,
          file |-> Text(f.tokens
                        \o json_dump([requirements_checked |-> rc, last_updated |-> now])),
          msg |-> Success("saved")]

\* save_progress(): io names the call that raises, "ok" if none does.  open(.., 'w')
\* empties the file, so a write that raises leaves it without content.
save_progress(rc, f, io, now) ==
    IF f.kind = "nodir" /\ io = "makedirs"
      THEN [rc |-> rc, file |-> f, msg |-> Error("save_error", "OSError")]
    ELSE IF io = "open"
      THEN [rc |-> rc, file |-> IF f.kind = "nodir" THEN NoFile ELSE f,
            msg |-> Error("save_error", "OSError")]
    ELSE IF io = "write"
      THEN [rc |-> rc, file |-> Text(<<>>), msg |-> Error("save_error", "OSError")]
    ELSE [rc |-> rc,
          file |-> Text(json_dump([requirements_checked |-> rc, last_updated |-> now])),
          msg |-> Success("saved")]

----------------------------------------------------------------------------
(* The script, top to bottom *)

\* lines 51-52: take requirements_checked from the parsed file, then report its date
TakeProgress(progress_data) ==
    IF ~progress_data.ok
      THEN [ss |-> [requirements_checked |-> DefaultRequirements],
            msg |-> Error("load_error", "JSONDecodeError")]
    ELSE IF progress_data.type # "dict"
      THEN [ss |-> [requirements_checked |-> DefaultRequirements],
            msg |-> Error("load_error", "TypeError")]
    ELSE IF "requirements_checked" \notin DOMAIN progress_data.val
      THEN [ss |-> [requirements_checked |-> DefaultRequirements],
            msg |-> Error("load_error", "KeyError")]
    ELSE IF "last_updated" \notin DOMAIN progress_data.val
      THEN [ss |-> [requirements_checked |-> progress_data.val["requirements_checked"]],
            msg |-> Error("load_error", "KeyError")]
    ELSE [ss |-> [requirements_checked |-> progress_data.val["requirements_checked"]],
          msg |-> Success("loaded")]

\* lines 34-54: initialise the session state and load the saved progress
InitBlock(ss, f) ==
    IF "requirements_checked" \in DOMAIN ss THEN [ss |-> ss, msg |-> NoMessage]
    ELSE IF f.kind \in {"nodir", "absent"}
      THEN [ss |-> [requirements_checked |-> DefaultRequirements], msg |-> NoMessage]
    ELSE IF f.kind = "unreadable"
      THEN [ss |-> [requirements_checked |-> DefaultRequirements],
            msg |-> Error("load_error", "OSError")]
    ELSE TakeProgress(json_load(f.tokens))

\* lines 168-177: the six generic checkboxes, in order
RECURSIVE Checklist(_, _, _, _)
Checklist(rc, click, i, rendered) ==
    IF i > Len(GenericKeys) THEN [rc |-> rc, rendered |-> rendered, exc |-> "none"]
    ELSE LET k == GenericKeys[i] IN
         IF k \notin DOMAIN rc
           THEN [rc |-> rc, rendered |-> rendered, exc |-> "KeyError"]
         ELSE Checklist([rc EXCEPT ![k] = Checkbox(RequirementBox(k), rc[k], click)],
                        click, i + 1, Append(rendered, RequirementBox(k)))

\* lines 187-193: overall progress
OverallProgress(rc) ==
    LET general_reqs == Cardinality({k \in DOMAIN rc :
                                       k # "University_Specific" /\ rc[k]})
        total_general_reqs == Cardinality(DOMAIN rc) - 1
    IN IF total_general_reqs = 0
         THEN [progress |-> <<>>, exc |-> "ZeroDivisionError"]
       ELSE IF general_reqs > total_general_reqs
         THEN [progress |-> <<general_reqs, total_general_reqs>>,
               exc |-> "StreamlitAPIException"]
       ELSE [progress |-> <<general_reqs, total_general_reqs>>, exc |-> "none"]

\* an insertion without the membership test of line 218
ensure_university_overwrite(us, university) == (university :> ZeroProgress) @@ us

\* lines 218-224: the lazy insertion of a university's entry
ensure_university(us, university) ==
    IF university \notin DOMAIN us THEN (university :> ZeroProgress) @@ us ELSE us

\* lines 229-253: the four checkboxes of one university, in order
RECURSIVE UniversityBoxes(_, _, _, _, _)
UniversityBoxes(univ_progress, university, click, j, rendered) ==
    IF j > Len(UnivFields)
      THEN [entry |-> univ_progress, rendered |-> rendered, exc |-> "none"]
    ELSE LET f == UnivFields[j] IN
         IF f \notin DOMAIN univ_progress
           THEN [entry |-> univ_progress, rendered |-> rendered, exc |-> "KeyError"]
         ELSE UniversityBoxes(
                  [univ_progress EXCEPT
                      ![f] = Checkbox(UniversityBox(university, f), univ_progress[f], click)],
                  university, click, j + 1,
                  Append(rendered, UniversityBox(university, f)))

\* lines 216-258: the loop over the rows of the filtered view
RECURSIVE UniversityLoop(_, _, _, _, _), Expander(_, _, _, _, _, _),
          Expanded(_, _, _, _, _, _)
\* a loop that ends by dropping the entries of universities outside the view
UniversityLoop_GC(rc, view, i, click, rendered) ==
    IF i > Len(view)
      THEN [rc |-> IF "University_Specific" \in DOMAIN rc
                     THEN [rc EXCEPT !["University_Specific"] =
                             [u \in DOMAIN @ \cap {view[n].University : n \in 1..Len(view)}
                                |-> @[u]]]
                     ELSE rc,
            rendered |-> rendered, exc |-> "none"]
    ELSE IF "University_Specific" \notin DOMAIN rc
      THEN [rc |-> rc, rendered |-> rendered, exc |-> "KeyError"]
    ELSE Expander([rc EXCEPT !["University_Specific"] =
                               ensure_university(@, view[i].University)],
                  view, i, click, rendered, view[i].University)

UniversityLoop(rc, view, i, click, rendered) ==
    IF i > Len(view) THEN [rc |-> rc, rendered |-> rendered, exc |-> "none"]
    ELSE IF "University_Specific" \notin DOMAIN rc
      THEN [rc |-> rc, rendered |-> rendered, exc |-> "KeyError"]
    ELSE Expander([rc EXCEPT !["University_Specific"] =
                               ensure_university(@, view[i].University)],
                  view, i, click, rendered, view[i].University)

\* lines 226-258: the expander of row i, whose entry exists, then the rows after it
Expander(rc, view, i, click, rendered, university) ==
    Expanded(rc, view, i, click, university,
             UniversityBoxes(rc["University_Specific"][university], university, click, 1,
                             rendered))

\* the loop once the four checkboxes of row i have been evaluated
Expanded(rc, view, i, click, university, boxes) ==
    IF boxes.exc # "none"
      THEN [rc |-> [rc EXCEPT !["University_Specific"][university] = boxes.entry],
            rendered |-> boxes.rendered, exc |-> boxes.exc]
    ELSE UniversityLoop([rc EXCEPT !["University_Specific"][university] = boxes.entry],
                        view, i + 1, click, boxes.rendered)

\* what a run leaves behind: the session state, the file and what was displayed
Rendering(init, chk, saved, prog, table, view, loop) ==
    [ss |-> [requirements_checked |-> loop.rc],
     file |-> saved.file,
     df |-> table,
     view |-> view,
     widgets |-> chk.rendered
                 \o (IF chk.exc = "none" THEN <<SaveButton>> ELSE <<>>)
                 \o loop.rendered,
     msg |-> saved.msg,
     progress |-> prog.progress,
     exc |-> loop.exc,
     after_init |-> init.ss["requirements_checked"],
     load_signal |-> init.msg]

\* lines 196-291: the table, the university loop and the rest of the page
Page(init, chk, saved, prog, table, view, click) ==
    Rendering(init, chk, saved, prog, table, view,
              IF prog.exc = "none" THEN UniversityLoop(saved.rc, view, 1, click, <<>>)
              ELSE [rc |-> saved.rc, rendered |-> <<>>, exc |-> prog.exc])

\* lines 185-194: the progress column
ProgressColumn(init, chk, saved, table, view, click) ==
    Page(init, chk, saved,
         IF chk.exc = "none" THEN OverallProgress(saved.rc)
         ELSE [progress |-> <<>>, exc |-> chk.exc],
         table, view, click)

\* lines 179-183: the save button
SaveColumn(init, chk, f, table, view, click, io, now) ==
    ProgressColumn(init, chk,
                   IF chk.exc = "none" /\ click = SaveButton
                     THEN save_progress(chk.rc, f, io, now)
                     ELSE [rc |-> chk.rc, file |-> f, msg |-> init.msg],
                   table, view, click)

\* lines 133-177: the table, the filters and the checklist
Body(init, f, table, cats, progs, click, io, now) ==
    SaveColumn(init, Checklist(init.ss["requirements_checked"], click, 1, <<>>),
               f, table, FilterRows(table, cats, progs), click, io, now)

\* One run of the script: the session state ss and the file f it finds, the
\* widget values of this run (the two multiselects and the user's click), and
\* what the environment answers (the failing call of a save, the clock).
Script(ss, f, cats, progs, click, io, now) ==
    Body(InitBlock(ss, f), f, load_university_data, cats, progs, click, io, now)

----------------------------------------------------------------------------
(* The progress files a session may find on disk *)

Requirements(checked, us) ==
    [k \in Range(GenericKeys) \cup {"University_Specific"} |->
        IF k = "University_Specific" THEN us ELSE k \in checked]

UniversityProgress(done) == [f \in Range(UnivFields) |-> f \in done]

Without(d, k) == [x \in DOMAIN d \ {k} |-> d[x]]

SomeEntries ==
    ("UT Austin" :> UniversityProgress({"Application_Started", "Documents_Uploaded"}))
    @@ ("Texas A&M" :> UniversityProgress(Range(UnivFields)))

ValidRequirements ==
    { DefaultRequirements,
      Requirements({"GRE", "SOP", "LORs"}, SomeEntries),
      Requirements({"TOEFL"}, ("MIT" :> UniversityProgress({"Application_Started"}))) }

MalformedRequirements ==
    { ("Essay" :> TRUE) @@ Requirements({"GRE"}, EmptyDict),
      Without(Requirements(Range(GenericKeys), EmptyDict), "University_Specific"),
      Without(Requirements({"GRE"}, EmptyDict), "LORs"),
      Requirements({"Resume"},
                   ("UC Davis" :> Without(UniversityProgress({"Application_Started"}),
                                          "Fee_Paid"))
                   @@ ("UT Austin" :> (("Notes" :> TRUE)
                                       @@ UniversityProgress({"Fee_Paid"})))) }

Snapshot(rc) == [requirements_checked |-> rc, last_updated |-> "2024-11-04 18:00:00"]

InitialFiles ==
    { NoFolder, Unreadable }
    \cup { Text(json_dump(Snapshot(rc))) : rc \in ValidRequirements \cup MalformedRequirements }
    \cup { Text(json_dump(Without(Snapshot(Requirements({"GRE", "SOP"}, SomeEntries)),
                                  "last_updated"))),
           Text(json_dump(Without(Snapshot(DefaultRequirements), "requirements_checked"))),
           Text(<<StrTok("progress")>>),
           Text(SubSeq(json_dump(Snapshot(Requirements({"GRE"}, SomeEntries))), 1, 20)) }

----------------------------------------------------------------------------
(* The state machine: one action per script run *)

Init ==
    /\ session_state = EmptyDict
    /\ file \in InitialFiles
    /\ df = <<>>
    /\ selected_categories = {}
    /\ selected_programs = {}
    /\ filtered_df = <<>>
    /\ widgets = <<>>
    /\ event = Event("none", "")
    /\ message = NoMessage
    /\ progress = <<>>
    /\ exception = "none"
    /\ after_init = EmptyDict
    /\ load_signal = NoMessage
    /\ touched = FALSE
    /\ clicks = 0

InSession == "requirements_checked" \in DOMAIN session_state

\* the last run rendered this widget, so the user can click it
Rendered(w) == \E n \in 1..Len(widgets) : widgets[n] = w

\* the state a run leaves behind
Ran(r, cats, progs, ev) ==
    /\ event' = ev
    /\ session_state' = r.ss
    /\ file' = r.file
    /\ df' = r.df
    /\ selected_categories' = cats
    /\ selected_programs' = progs
    /\ filtered_df' = r.view
    /\ widgets' = r.widgets
    /\ message' = r.msg
    /\ progress' = r.progress
    /\ exception' = r.exc
    /\ after_init' = IF ev.kind = "open" THEN r.after_init ELSE after_init
    /\ load_signal' = IF ev.kind = "open" THEN r.load_signal ELSE load_signal

\* The browser opens the page, or the user reloads it: an empty session state, every
\* widget at its default.
StartSession ==
    /\ InSession => clicks < MaxClicks
    /\ Ran(Script(EmptyDict, file, CategoryOptions(load_university_data),
                  ProgramOptions(load_university_data), NoClick, "ok", datetime_now(clicks)),
           CategoryOptions(load_university_data), ProgramOptions(load_university_data),
           Event("open", ""))
    /\ touched' = FALSE
    /\ clicks' = IF InSession THEN clicks + 1 ELSE clicks

\* The user clicks one of the six generic checkboxes.
ToggleRequirement(k) ==
    /\ InSession
    /\ Rendered(RequirementBox(k))
    /\ clicks < MaxClicks
    /\ Ran(Script(session_state, file, selected_categories, selected_programs,
                  RequirementBox(k), "ok", datetime_now(clicks)),
           selected_categories, selected_programs, RequirementBox(k))
    /\ touched' = TRUE
    /\ clicks' = clicks + 1

\* The user clicks a checkbox in the expander of the i-th row of the view.
ToggleUniversityField(i, f) ==
    /\ InSession
    /\ i \in 1..Min(MaxExpanders, Len(filtered_df))
    /\ Rendered(UniversityBox(filtered_df[i].University, f))
    /\ clicks < MaxClicks
    /\ Ran(Script(session_state, file, selected_categories, selected_programs,
                  UniversityBox(filtered_df[i].University, f), "ok", datetime_now(clicks)),
           selected_categories, selected_programs,
           UniversityBox(filtered_df[i].University, f))
    /\ touched' = TRUE
    /\ clicks' = clicks + 1

\* The user adds or removes one option of the category multiselect.
SelectCategory(c) ==
    /\ InSession
    /\ clicks < MaxClicks
    /\ LET cats == IF c \in selected_categories THEN selected_categories \ {c}
                   ELSE selected_categories \cup {c}
       IN Ran(Script(session_state, file, cats, selected_programs, NoClick, "ok",
                     datetime_now(clicks)),
              cats, selected_programs, Event("category", c))
    /\ clicks' = clicks + 1
    /\ UNCHANGED touched

\* The user adds or removes one option of the program multiselect.
SelectProgram(p) ==
    /\ InSession
    /\ clicks < MaxClicks
    /\ LET progs == IF p \in selected_programs THEN selected_programs \ {p}
                    ELSE selected_programs \cup {p}
       IN Ran(Script(session_state, file, selected_categories, progs, NoClick, "ok",
                     datetime_now(clicks)),
              selected_categories, progs, Event("program", p))
    /\ clicks' = clicks + 1
    /\ UNCHANGED touched

\* The user clicks 'Save Progress'.
ClickSave(io) ==
    /\ InSession
    /\ Rendered(SaveButton)
    /\ io \in IoOutcomes(file)
    /\ Ran(Script(session_state, file, selected_categories, selected_programs,
                  SaveButton, io, datetime_now(clicks)),
           selected_categories, selected_programs, SaveButton)
    /\ UNCHANGED <<touched, clicks>>

Next ==
    \/ StartSession
    \/ \E k \in Range(GenericKeys) : ToggleRequirement(k)
    \/ \E i \in 1..MaxExpanders, f \in Range(UnivFields) : ToggleUniversityField(i, f)
    \/ \E c \in CategoryOptions(df) : SelectCategory(c)
    \/ \E p \in ProgramOptions(df) : SelectProgram(p)
    \/ \E io \in {"ok", "makedirs", "open", "write"} : ClickSave(io)

Spec == Init /\ [][Next]_vars

----------------------------------------------------------------------------
(* The filter alone, on the program's table and on every small table *)

SmallTables ==
    UNION { { [i \in 1..n |-> Row(load_university_data[i].University, cp[i][1], cp[i][2])] :
                cp \in [1..n -> CategoryOptions(load_university_data)
                                \X ProgramOptions(load_university_data)] } :
            n \in 0..MaxRows }

FilterInit ==
    /\ session_state = EmptyDict
    /\ file = NoFolder
    /\ df \in SmallTables \cup {load_university_data}
    /\ selected_categories \in SUBSET CategoryOptions(df)
    /\ selected_programs \in SUBSET ProgramOptions(df)
    /\ filtered_df = <<>>
    /\ widgets = <<>>
    /\ event = Event("none", "")
    /\ message = NoMessage
    /\ progress = <<>>
    /\ exception = "none"
    /\ after_init = EmptyDict
    /\ load_signal = NoMessage
    /\ touched = FALSE
    /\ clicks = 0

\* lines 152-156 on the table and the selections of the state
ApplyFilter ==
    /\ event.kind = "none"
    /\ filtered_df' = FilterRows(df, selected_categories, selected_programs)
    /\ event' = Event("filter", "")
    /\ UNCHANGED <<session_state, file, df, selected_categories, selected_programs,
                   widgets, message, progress, exception, after_init, load_signal,
                   touched, clicks>>

SpecFilter == FilterInit /\ [][ApplyFilter]_vars

----------------------------------------------------------------------------
(* Properties *)

RC == session_state["requirements_checked"]

HasEntries(rc) == "University_Specific" \in DOMAIN rc

ViewNames == {filtered_df[i].University : i \in 1..Len(filtered_df)}

SomeFieldSet(us) == \E u \in DOMAIN us : \E f \in DOMAIN us[u] : us[u][f]

\* what the init block of a new session would make of the file as it is now
Reloaded == InitBlock(EmptyDict, file)

\* progress_data, as parsed, is a complete snapshot whose requirements_checked is rc
IsSnapshot(progress_data, rc) ==
    /\ progress_data.ok
    /\ progress_data.type = "dict"
    /\ DOMAIN progress_data.val = {"requirements_checked", "last_updated"}
    /\ progress_data.val["requirements_checked"] = rc

\* f holds a complete snapshot whose requirements_checked is rc
SnapshotOf(f, rc) == f.kind = "text" /\ IsSnapshot(json_load(f.tokens), rc)

\* C1: whenever the init block signalled a load error, it left the defaults behind.
C1_LoadFailureLeavesDefaults ==
    load_signal.kind = "load_error" => after_init = DefaultRequirements

\* requirements_checked has the shape of the documented snapshot
ValidShape(rc) ==
    /\ DOMAIN rc = DOMAIN DefaultRequirements
    /\ \A u \in DOMAIN rc["University_Specific"] :
          DOMAIN rc["University_Specific"][u] = Range(UnivFields)

\* a valid snapshot was loaded, no checkbox was clicked, and the last run saved
RoundTripCase ==
    /\ load_signal.kind = "loaded"
    /\ ValidShape(after_init)
    /\ ~touched
    /\ message.kind = "saved"

\* C2 (as stated): load a valid snapshot, save, load again: requirements_checked is
\* equal to the one first loaded.
C2_RoundTripEqual ==
    RoundTripCase => Reloaded.ss["requirements_checked"] = after_init

\* the second load succeeded and its requirements_checked is that of the first with
\* an all-false entry added for each university of the table the first had none for
Extends(first, second) ==
    /\ second.msg.kind = "loaded"
    /\ second.ss["requirements_checked"]
          = [first EXCEPT !["University_Specific"] =
                [u \in DOMAIN @ \cup TableNames |->
                    IF u \in DOMAIN first["University_Specific"]
                      THEN first["University_Specific"][u]
                      ELSE ZeroProgress]]

\* C2 (amended): load a valid snapshot, save, load again: the second load succeeds,
\* has the six flags and every University_Specific entry of the first, and besides
\* them an all-false entry for each university of the table the first had none for.
C2_RoundTripExtends ==
    RoundTripCase => Extends(after_init, Reloaded)

C2_RoundTripWitness ==
    /\ RoundTripCase
    /\ after_init["GRE"]
    /\ SomeFieldSet(after_init["University_Specific"])
    /\ ~(TableNames \subseteq DOMAIN after_init["University_Specific"])

\* C3: whenever overall progress is computed, it is the number of true flags among
\* the six generic requirements over the denominator 6.
C3_ProgressOverSix ==
    progress # <<>> =>
        progress = << Cardinality({k \in Range(GenericKeys) : k \in DOMAIN RC /\ RC[k]}), 6 >>

\* C4: every entry of University_Specific has exactly the four fields.
C4_ExactlyFourFields ==
    (InSession /\ HasEntries(RC)) =>
        \A u \in DOMAIN RC["University_Specific"] :
            DOMAIN RC["University_Specific"][u] = Range(UnivFields)

\* C5: the universities of University_Specific are universities of the table.
C5_NamesInTable ==
    (InSession /\ HasEntries(RC)) => DOMAIN RC["University_Specific"] \subseteq TableNames

\* C6: a run whose save fails reports the error, leaves the session state as it was
\* before the run, and renders the save button again.
C6_SaveFailureKeepsState ==
    [][ (event'.kind = "save" /\ message'.kind = "save_error") =>
            /\ message'.cause = "OSError"
            /\ session_state' = session_state
            /\ \E n \in 1..Len(widgets') : widgets'[n] = SaveButton ]_vars

C6_SaveFailureWitness ==
    /\ event.kind = "save"
    /\ message.kind = "save_error"
    /\ ValidShape(RC)
    /\ RC["GRE"]
    /\ SomeFieldSet(RC["University_Specific"])

\* the session found a file that is no JSON text
CorruptStart == load_signal = Error("load_error", "JSONDecodeError")

\* the run a click on the save button starts now, no call of the save raising
SaveNow ==
    Script(session_state, file, selected_categories, selected_programs, SaveButton, "ok",
           datetime_now(clicks))

\* the run r reported a save and left a complete snapshot of its session state
SavedWhole(r) ==
    r.msg.kind = "saved" /\ SnapshotOf(r.file, r.ss["requirements_checked"])

\* C7: in a session that found a corrupt file, the init block left the defaults and
\* signalled the error; the save button is there, a save that meets no I/O error
\* succeeds and leaves a complete snapshot of the session state in the file.
C7_SaveAfterCorruptLoad ==
    CorruptStart =>
        /\ after_init = DefaultRequirements
        /\ Rendered(SaveButton)
        /\ SavedWhole(SaveNow)
        /\ message.kind = "saved" => SnapshotOf(file, RC)

C7_SaveAfterCorruptLoadWitness ==
    /\ CorruptStart
    /\ message.kind = "saved"
    /\ RC["GRE"]
    /\ SnapshotOf(file, RC)

\* requirements_checked before the loop of the run that leads to the next state
BeforeRun == IF event'.kind = "open" THEN after_init' ELSE RC

\* C8: in every run, an entry that exists keeps its four values unless one of its
\* own checkboxes was clicked, and the only new entries are all-false ones for rows
\* of the view; a run that ends normally leaves an entry for every row of the view.
C8_EnsureIdempotent ==
    [][ (event'.kind # "filter" /\ HasEntries(BeforeRun)) =>
            /\ HasEntries(RC')
            /\ DOMAIN BeforeRun["University_Specific"]
                  \subseteq DOMAIN RC'["University_Specific"]
            /\ \A u \in DOMAIN RC'["University_Specific"] :
                  IF u \in DOMAIN BeforeRun["University_Specific"]
                    THEN \/ event'.kind = "university" /\ event'.name = u
                         \/ RC'["University_Specific"][u]
                              = BeforeRun["University_Specific"][u]
                    ELSE /\ RC'["University_Specific"][u] = ZeroProgress
                         /\ u \in ViewNames'
            /\ exception' = "none" =>
                  ViewNames' \subseteq DOMAIN RC'["University_Specific"] ]_vars

C8_EnsureIdempotentWitness ==
    /\ event.kind = "save"
    /\ ~touched
    /\ ValidShape(after_init)
    /\ \E u \in DOMAIN after_init["University_Specific"] :
          /\ \E f \in DOMAIN after_init["University_Specific"][u] :
                after_init["University_Specific"][u][f]
          /\ RC["University_Specific"][u] = after_init["University_Specific"][u]
    /\ \E u \in DOMAIN RC["University_Specific"] :
          /\ u \notin DOMAIN after_init["University_Specific"]
          /\ RC["University_Specific"][u] = ZeroProgress

\* the rows of the table that pass the filter of the state
Matching ==
    {i \in 1..Len(df) : df[i].Category \in selected_categories
                        /\ df[i].Program \in selected_programs}

\* C9: once the filter has run, the view holds exactly the rows of the table whose
\* category and program are selected, in the order of the table.
C9_FilterExact ==
    event.kind # "none" =>
        /\ Len(filtered_df) = Cardinality(Matching)
        /\ \A i \in Matching :
              filtered_df[Cardinality({j \in Matching : j <= i})] = df[i]

C9_FilterExactWitness ==
    /\ event.kind = "filter"
    /\ df = load_university_data
    /\ selected_categories = {"Self Apply"}
    /\ selected_programs = {"MS CS"}
    /\ Len(filtered_df) = 5
    /\ filtered_df[4].University = "University of South Florida"

\* the saved requirements_checked has, for each of the names, the entry of us
Holds(saved, us, names) ==
    \A u \in names :
        /\ HasEntries(saved)
        /\ u \in DOMAIN saved["University_Specific"]
        /\ saved["University_Specific"][u] = us[u]

====
